---- MODULE Spec2Model ----
(***************************************************************************)
(* Model of the blingfire wrapper (src/blingfire/src/lib.rs): load_model,  *)
(* text_to_ids and free_model, called by several threads that share raw    *)
(* model pointers, on top of an opaque native library (LoadModel,          *)
(* TextToIds, FreeModel).                                                   *)
(*                                                                         *)
(* A usize does not fit TLC's integers, so a usize u is the record         *)
(* [hi, lo] standing for hi * 2^31 + lo with 0 <= lo <= i32::MAX.  A       *)
(* Vec<i32> of length n is [len, head]: head holds the first MaxTok slots, *)
(* every slot beyond them is 0 (the native stub writes no further).        *)
(***************************************************************************)
EXTENDS Integers, Sequences, FiniteSets, TLC

\* ------------------------------------------------------------------ bounds
NThreads == 2
MaxOps == 3
MaxTok == 2

\* --------------------------------------------------------------- constants
I32_MAX == 2147483647
NULL == 0
SUCCESS == 1

Threads == 1..NThreads
Ptrs == 0..MaxOps
Slots == 1..MaxTok

\* ------------------------------------------------------------------- usize
U(n) == [hi |-> 0, lo |-> n]

ULeq(a, b) == a.hi < b.hi \/ (a.hi = b.hi /\ a.lo <= b.lo)

\* i32 -> usize comparison helper: n <= u for a non-negative i32 n
ILeqU(n, u) == n < 0 \/ ULeq(U(n), u)

\* u + 1, carrying into hi
USucc(u) == IF u.lo = I32_MAX THEN [hi |-> u.hi + 1, lo |-> 0]
            ELSE [hi |-> u.hi, lo |-> u.lo + 1]

\* usize::try_into::<i32>(): Ok(v) when the value fits, Err otherwise
TryIntoI32(u) == IF u.hi = 0 THEN [ok |-> TRUE, val |-> u.lo]
                 ELSE [ok |-> FALSE, val |-> 0]

UnwrapOr(r, default) == IF r.ok THEN r.val ELSE default

\* `u as i32`: keeps the low 32 bits, reinterpreted as two's complement
WrappingCast(u) == IF u.hi % 2 = 1 THEN (u.lo - I32_MAX) - 1 ELSE u.lo

\* x.try_into().unwrap_or(i32::MAX)
Saturate(u) == UnwrapOr(TryIntoI32(u), I32_MAX)

\* ------------------------------------------------------------------- texts
\* A &str: its byte length and a tag standing for its content.
Texts == { [len |-> U(0), tag |-> 0],
           [len |-> U(1), tag |-> 1],
           [len |-> U(2), tag |-> 2],
           [len |-> U(I32_MAX), tag |-> 3],
           [len |-> [hi |-> 1, lo |-> 5], tag |-> 4] }

ByteLen(source) == source.len

IsEmptyNever(source) == FALSE

IsEmpty(source) == ByteLen(source) = U(0)

\* Model paths: does the file load, does the string hold an interior NUL.
Paths == { [loadable |-> TRUE, nul |-> FALSE],
           [loadable |-> FALSE, nul |-> FALSE],
           [loadable |-> TRUE, nul |-> TRUE] }

\* CString::new(path): Err on an interior NUL byte
CStringNew(path) == IF path.nul THEN "NulError" ELSE "Ok"

\* ----------------------------------------------------------------- buffers
ZeroHead == [i \in Slots |-> 0]

\* vec![0; n]
ZeroVec(n) == [len |-> n, head |-> ZeroHead]

\* a heap cell no call owns
NoVec == ZeroVec(U(0))

VecLen(v) == v.len

\* slot i (1-based) of a buffer
Slot(v, i) == IF i \in Slots THEN v.head[i] ELSE 0

WriteSlot(v, i, id) == [v EXCEPT !.head[i] = id]

Min(a, b) == IF a <= b THEN a ELSE b

\* ------------------------------------------------------- the native library
\* LoadModel: a fresh non-null pointer for a loadable file, null otherwise.
NativeLoad(path, fresh) == IF path.loadable THEN {fresh} ELSE {NULL}

\* TextToIds on valid model data: a function of its inputs alone.  It reads
\* at most len bytes, finds one token per two bytes (rounded up) and writes
\* at most cap ids, into the first slots.
NativeConvert(source, len, cap) ==
    LET n == Min(Min(len - (len \div 2), cap), MaxTok)
    IN  [i \in 1..(IF n < 0 THEN 0 ELSE n) |-> 10 * source.tag + i]

\* FreeModel: a status code; SUCCESS is the only success status.
Statuses == {-1, 0, 1}

\* What a call on a dangling or null pointer may leave in a slot.
GarbageIds == {-1}

\* ------------------------------------------------------------ the wrapper
\* ensure!(!model_ptr.is_null(), LoadModelError); Ok(model_ptr)
LoadResultUnchecked(model_ptr) == [ret |-> "Ok", ptr |-> model_ptr]

LoadResult(model_ptr) ==
    IF model_ptr = NULL THEN [ret |-> "LoadModelError", ptr |-> NULL]
    ELSE [ret |-> "Ok", ptr |-> model_ptr]

\* ensure!(result == 1, FreeModelError); Ok(())
FreeResultTruthy(result) == IF result # 0 THEN "Ok" ELSE "FreeModelError"

FreeResult(result) == IF result = SUCCESS THEN "Ok" ELSE "FreeModelError"

\* src_byte_len.try_into().unwrap_or(i32::MAX)
LenArgPlusNul(source) == Saturate(USucc(ByteLen(source)))

LenArg(source) == Saturate(ByteLen(source))

\* destination.len().try_into().unwrap_or(i32::MAX)
CapArgCeiling(destination) == 1

CapArg(destination) == Saturate(VecLen(destination))

\* The destination of thread t's call: a Vec allocated by that call, so no
\* two calls in flight share one.  One heap cell per thread stands for it.
AllocShared(t) == 1

Alloc(t) == t

\* return Ok(destination)
ReturnTrimmed(destination) ==
    LET used == {i \in Slots : Slot(destination, i) # 0}
        k == IF used = {} THEN 0 ELSE CHOOSE i \in used : \A j \in used : j <= i
    IN  IF ULeq(U(k), VecLen(destination))
        THEN [destination EXCEPT !.len = U(k)] ELSE destination

ReturnValue(destination) == destination

\* The capacity policies a caller may want; text_to_ids has no parameter
\* that carries the choice.
Policies == {"byte_len", "ceiling"}

\* ------------------------------------------------------------------ state
VARIABLES
    pc,          \* per thread: "idle", "in_native" (inside TextToIds), "panicked"
    call,        \* per thread: the text_to_ids call in progress
    done,        \* the call that completed last, with what it returned
    bufs,        \* the heap cells holding destination vectors
    returned,    \* pointers load_model has returned in Ok
    nativeLive,  \* pointers the native library holds a model for
    freed,       \* pointers free_model has been called on
    freeCalls,   \* per pointer: invocations of the native FreeModel
    nextPtr,     \* the next pointer the native LoadModel hands out
    nops,        \* calls made so far
    policy,      \* the capacity policy the caller wants
    crashed      \* the process died inside the native library

vars == <<pc, call, done, bufs, returned, nativeLive, freed, freeCalls, nextPtr, nops, policy, crashed>>

NoCall == [op |-> "none", h |-> NULL, source |-> [len |-> U(0), tag |-> 0],
           path |-> [loadable |-> FALSE, nul |-> FALSE],
           lenArg |-> 0, capArg |-> 0, alloc |-> U(0),
           nload |-> 0, nconv |-> 0, nfree |-> 0, native |-> 0,
           ret |-> "none", ptr |-> NULL, out |-> ZeroVec(U(0)), wrote |-> <<>>,
           afterFree |-> FALSE, stale |-> FALSE, raced |-> FALSE]

Init ==
    /\ pc = [t \in Threads |-> "idle"]
    /\ call = [t \in Threads |-> NoCall]
    /\ done = NoCall
    /\ bufs = [t \in Threads |-> NoVec]
    /\ returned = {}
    /\ nativeLive = {}
    /\ freed = {}
    /\ freeCalls = [p \in Ptrs |-> 0]
    /\ nextPtr = 1
    /\ nops = 0
    /\ policy \in Policies
    /\ crashed = FALSE

CanCall(t) == ~crashed /\ pc[t] = "idle" /\ nops < MaxOps

\* The pointers a caller holds: null, or one load_model gave it.
Held == {NULL} \cup returned

\* load_model, path with an interior NUL: CString::new(..).unwrap() panics
LoadModelPanic(t, path) ==
    /\ CanCall(t)
    /\ CStringNew(path) # "Ok"
    /\ pc' = [pc EXCEPT ![t] = "panicked"]
    /\ done' = [NoCall EXCEPT !.op = "load_model", !.path = path, !.ret = "panic"]
    /\ nops' = nops + 1
    /\ UNCHANGED <<call, bufs, returned, nativeLive, freed, freeCalls, nextPtr, policy, crashed>>

\* load_model, path without NUL: one native LoadModel, then the null check
LoadModel(t, path) ==
    /\ CanCall(t)
    /\ CStringNew(path) = "Ok"
    /\ \E model_ptr \in NativeLoad(path, nextPtr) :
         LET r == LoadResult(model_ptr) IN
         /\ done' = [NoCall EXCEPT !.op = "load_model",
                        !.path = path, !.nload = 1, !.native = model_ptr,
                        !.ret = r.ret, !.ptr = r.ptr]
         /\ nativeLive' = IF model_ptr = NULL THEN nativeLive
                          ELSE nativeLive \cup {model_ptr}
         /\ nextPtr' = IF model_ptr = NULL THEN nextPtr ELSE nextPtr + 1
         /\ returned' = IF r.ret = "Ok" THEN returned \cup {r.ptr} ELSE returned
    /\ nops' = nops + 1
    /\ UNCHANGED <<pc, call, bufs, freed, freeCalls, policy, crashed>>

\* text_to_ids, empty source: allocates and returns, no native call
TextToIdsEmpty(t, model_ptr, source) ==
    /\ CanCall(t)
    /\ IsEmpty(source)
    /\ LET destination == ZeroVec(ByteLen(source)) IN
         done' = [NoCall EXCEPT !.op = "text_to_ids",
                        !.h = model_ptr, !.source = source,
                        !.alloc = VecLen(destination),
                        !.ret = "Ok", !.out = ReturnValue(destination)]
    /\ nops' = nops + 1
    /\ UNCHANGED <<pc, call, bufs, returned, nativeLive, freed, freeCalls, nextPtr, policy, crashed>>

\* text_to_ids, non-empty source: allocates and enters the native TextToIds
TextToIdsBegin(t, model_ptr, source) ==
    /\ CanCall(t)
    /\ ~IsEmpty(source)
    /\ LET destination == ZeroVec(ByteLen(source)) IN
         /\ bufs' = [bufs EXCEPT ![Alloc(t)] = destination]
         /\ call' = [call EXCEPT ![t] = [NoCall EXCEPT !.op = "text_to_ids",
                        !.h = model_ptr, !.source = source,
                        !.lenArg = LenArg(source), !.capArg = CapArg(destination),
                        !.alloc = VecLen(destination), !.nconv = 1,
                        !.afterFree = model_ptr \in freed,
                        !.stale = model_ptr \notin nativeLive]]
    /\ pc' = [pc EXCEPT ![t] = "in_native"]
    /\ nops' = nops + 1
    /\ UNCHANGED <<done, returned, nativeLive, freed, freeCalls, nextPtr, policy, crashed>>

\* The model behind the call's pointer was valid from entry until now.
Valid(c) == ~c.stale /\ ~c.raced

\* the native TextToIds writes its next id into the destination
NativeWrite(t) ==
    /\ ~crashed
    /\ pc[t] = "in_native"
    /\ LET c == call[t]
           i == Len(c.wrote) + 1
           plan == NativeConvert(c.source, c.lenArg, c.capArg)
       IN  /\ Valid(c)
           /\ i <= Len(plan)
           /\ bufs' = [bufs EXCEPT ![Alloc(t)] = WriteSlot(@, i, plan[i])]
           /\ call' = [call EXCEPT ![t].wrote = Append(@, plan[i])]
    /\ UNCHANGED <<pc, done, returned, nativeLive, freed, freeCalls, nextPtr, nops, policy, crashed>>

\* the same on a null, dangling or concurrently freed pointer: any id
NativeWriteGarbage(t) ==
    /\ ~crashed
    /\ pc[t] = "in_native"
    /\ LET c == call[t]
           i == Len(c.wrote) + 1
       IN  /\ ~Valid(c)
           /\ i \in Slots /\ i <= c.capArg
           /\ \E id \in GarbageIds :
                /\ bufs' = [bufs EXCEPT ![Alloc(t)] = WriteSlot(@, i, id)]
                /\ call' = [call EXCEPT ![t].wrote = Append(@, id)]
    /\ UNCHANGED <<pc, done, returned, nativeLive, freed, freeCalls, nextPtr, nops, policy, crashed>>

\* ... or the process dies on the first access to the missing model
NativeConvertCrash(t) ==
    /\ ~crashed
    /\ pc[t] = "in_native"
    /\ ~Valid(call[t])
    /\ call[t].wrote = <<>>
    /\ crashed' = TRUE
    /\ UNCHANGED <<pc, call, done, bufs, returned, nativeLive, freed, freeCalls, nextPtr, nops, policy>>

\* the native TextToIds returns; text_to_ids returns Ok(destination)
TextToIdsReturn(t) ==
    /\ ~crashed
    /\ pc[t] = "in_native"
    /\ LET c == call[t] IN
         /\ Valid(c) => Len(c.wrote) = Len(NativeConvert(c.source, c.lenArg, c.capArg))
         /\ done' = [c EXCEPT !.ret = "Ok", !.out = ReturnValue(bufs[Alloc(t)])]
    /\ call' = [call EXCEPT ![t] = NoCall]
    /\ bufs' = [bufs EXCEPT ![Alloc(t)] = NoVec]
    /\ pc' = [pc EXCEPT ![t] = "idle"]
    /\ UNCHANGED <<returned, nativeLive, freed, freeCalls, nextPtr, nops, policy, crashed>>

\* The threads inside the native TextToIds on pointer p.
InFlight(p) == {u \in Threads : pc[u] = "in_native" /\ call[u].h = p}

\* free_model: one native FreeModel, then the status check.  Calls of other
\* threads still inside TextToIds on the same pointer now race with it.
FreeModel(t, model_ptr) ==
    /\ CanCall(t)
    /\ \E result \in Statuses :
         /\ done' = [NoCall EXCEPT !.op = "free_model", !.h = model_ptr,
                        !.nfree = 1, !.native = result,
                        !.ret = FreeResult(result),
                        !.afterFree = model_ptr \in freed,
                        !.stale = model_ptr \notin nativeLive,
                        !.raced = InFlight(model_ptr) # {}]
         /\ nativeLive' = IF result = SUCCESS THEN nativeLive \ {model_ptr}
                          ELSE nativeLive
    /\ call' = [u \in Threads |-> IF u \in InFlight(model_ptr)
                                    THEN [call[u] EXCEPT !.raced = TRUE]
                                    ELSE call[u]]
    /\ freed' = freed \cup {model_ptr}
    /\ freeCalls' = [freeCalls EXCEPT ![model_ptr] = @ + 1]
    /\ nops' = nops + 1
    /\ UNCHANGED <<pc, bufs, returned, nextPtr, policy, crashed>>

\* free_model on a pointer the native library holds no model for may also
\* kill the process inside FreeModel
FreeModelCrash(t, model_ptr) ==
    /\ CanCall(t)
    /\ model_ptr \notin nativeLive
    /\ done' = [NoCall EXCEPT !.op = "free_model",
                   !.h = model_ptr, !.nfree = 1,
                   !.afterFree = model_ptr \in freed, !.stale = TRUE,
                   !.raced = InFlight(model_ptr) # {}]
    /\ call' = [u \in Threads |-> IF u \in InFlight(model_ptr)
                                    THEN [call[u] EXCEPT !.raced = TRUE]
                                    ELSE call[u]]
    /\ freed' = freed \cup {model_ptr}
    /\ freeCalls' = [freeCalls EXCEPT ![model_ptr] = @ + 1]
    /\ nops' = nops + 1
    /\ crashed' = TRUE
    /\ UNCHANGED <<pc, bufs, returned, nativeLive, nextPtr, policy>>

Next ==
    \/ \E t \in Threads, path \in Paths : LoadModelPanic(t, path)
    \/ \E t \in Threads, path \in Paths : LoadModel(t, path)
    \/ \E t \in Threads, h \in Held, source \in Texts :
         TextToIdsEmpty(t, h, source)
    \/ \E t \in Threads, h \in Held, source \in Texts :
         TextToIdsBegin(t, h, source)
    \/ \E t \in Threads : NativeWrite(t)
    \/ \E t \in Threads : NativeWriteGarbage(t)
    \/ \E t \in Threads : NativeConvertCrash(t)
    \/ \E t \in Threads : TextToIdsReturn(t)
    \/ \E t \in Threads, h \in Held : FreeModel(t, h)
    \/ \E t \in Threads, h \in Held : FreeModelCrash(t, h)

Spec == Init /\ [][Next]_vars

TypeOK ==
    /\ pc \in [Threads -> {"idle", "in_native", "panicked"}]
    /\ returned \subseteq Ptrs
    /\ nativeLive \subseteq Ptrs
    /\ nops \in 0..MaxOps
    /\ crashed \in BOOLEAN

\* ----------------------------------------------------------------- claims
\* The text_to_ids calls that reached the native TextToIds: those in flight
\* and the one that completed last.
NativeCalls ==
    {call[t] : t \in {u \in Threads : pc[u] = "in_native"}}
        \cup (IF done.op = "text_to_ids" /\ done.nconv = 1 THEN {done} ELSE {})

\* min(u, i32::MAX) of a usize u, as an i32
MinI32(u) == IF ULeq(u, U(I32_MAX)) THEN u.lo ELSE I32_MAX

NonEmpty(source) == source.len # U(0)

\* The destination a call holds when it runs alone on a live model.
TextToIdsAlone(source) ==
    LET n == MinI32(source.len)
        ids == NativeConvert(source, n, n)
    IN  [len |-> source.len,
         head |-> [i \in Slots |-> IF NonEmpty(source) /\ i <= Len(ids)
                                   THEN ids[i] ELSE 0]]

\* C1: on a pointer load_model returned, the native FreeModel is invoked at
\* most once, and the native TextToIds is never invoked after free_model
\* was called on it.
C1_ReleaseOnceNoUseAfter ==
    \A h \in returned :
        /\ freeCalls[h] <= 1
        /\ \A c \in NativeCalls : c.h = h => ~c.afterFree

\* C2: the native FreeModel is never invoked on a pointer load_model
\* returned while a text_to_ids call on that pointer is inside the native
\* TextToIds.
C2_NoFreeWhileInFlight ==
    /\ \A t \in Threads :
         pc[t] = "in_native" /\ call[t].h \in returned => ~call[t].raced
    /\ done.op = "free_model" /\ done.h \in returned => ~done.raced

\* C3: a text_to_ids call on a model that stays loaded returns, under every
\* interleaving with the calls of other threads, what the same call returns
\* when it runs alone.
C3_SameAsSequential ==
    done.op = "text_to_ids" /\ done.ret = "Ok" /\ Valid(done)
        => done.out = TextToIdsAlone(done.source)

C3_Witness ==
    /\ done.op = "text_to_ids" /\ done.ret = "Ok" /\ Valid(done)
    /\ Len(done.wrote) > 0
    /\ \E t \in Threads :
         /\ pc[t] = "in_native" /\ Valid(call[t])
         /\ call[t].h = done.h
         /\ call[t].source # done.source
         /\ Len(call[t].wrote) > 0

\* C4 as stated: every load_model call invokes the native LoadModel exactly
\* once, returns LoadModelError exactly when it returned null and Ok with
\* the same pointer otherwise, so no returned handle is null.
C4_Original ==
    /\ NULL \notin returned
    /\ done.op = "load_model" =>
         /\ done.nload = 1
         /\ done.ret = "LoadModelError" <=> done.native = NULL
         /\ done.native # NULL => done.ret = "Ok" /\ done.ptr = done.native

\* C4 amended: the same for every load_model call whose path holds no
\* interior NUL byte; on a path with an interior NUL byte load_model panics
\* before the native LoadModel is invoked.
C4_LoadResult ==
    /\ NULL \notin returned
    /\ done.op = "load_model" =>
         IF done.path.nul
         THEN done.ret = "panic" /\ done.nload = 0
         ELSE /\ done.nload = 1
              /\ done.ret = "LoadModelError" <=> done.native = NULL
              /\ done.native # NULL => done.ret = "Ok" /\ done.ptr = done.native

C4_Witness ==
    /\ returned # {}
    /\ done.op = "load_model" /\ done.nload = 1
    /\ done.native = NULL /\ done.ret = "LoadModelError"

\* C5: free_model invokes the native FreeModel exactly once, and returns
\* Ok exactly when the status is 1 and FreeModelError for any other status.
C5_FreeResult ==
    done.op = "free_model" =>
        /\ done.nfree = 1
        /\ done.ret # "none" =>
             /\ done.ret = "Ok" <=> done.native = 1
             /\ done.native # 1 => done.ret = "FreeModelError"

C5_Witness ==
    /\ done.op = "free_model" /\ ~done.stale
    /\ done.native = -1 /\ done.ret = "FreeModelError"

\* C6: text_to_ids on an empty text returns Ok with a zero-length result and
\* does not invoke the native TextToIds, whatever the pointer; on a
\* non-empty text it invokes it exactly once.
C6_EmptyShortCircuit ==
    /\ done.op = "text_to_ids" /\ ~NonEmpty(done.source) =>
         done.ret = "Ok" /\ done.out.len = U(0) /\ done.nconv = 0
    /\ done.op = "text_to_ids" /\ NonEmpty(done.source) => done.nconv = 1
    /\ \A t \in Threads :
         pc[t] = "in_native" => NonEmpty(call[t].source) /\ call[t].nconv = 1

C6_Witness ==
    /\ done.op = "text_to_ids" /\ ~NonEmpty(done.source)
    /\ done.h \in freed /\ done.h # NULL
    /\ done.nconv = 0

\* C7: the length and the capacity handed to the native TextToIds are
\* min(source byte length, i32::MAX) and min(destination length, i32::MAX).
C7_Saturation ==
    \A c \in NativeCalls :
        /\ c.lenArg = MinI32(c.source.len)
        /\ c.capArg = MinI32(c.alloc)

C7_Witness ==
    /\ done.op = "text_to_ids" /\ done.ret = "Ok"
    /\ done.source.len.hi > 0
    /\ done.lenArg = I32_MAX /\ done.capArg = I32_MAX

\* C8: text_to_ids on a non-empty text of byte length L returns Ok with
\* exactly L slots: the ids the native TextToIds wrote, in order, then 0s.
C8_PrefixThenZeros ==
    done.op = "text_to_ids" /\ NonEmpty(done.source) =>
        /\ done.ret = "Ok"
        /\ done.out.len = done.source.len
        /\ \A i \in Slots :
             Slot(done.out, i) = IF i <= Len(done.wrote) THEN done.wrote[i] ELSE 0

C8_Witness ==
    /\ done.op = "text_to_ids" /\ done.ret = "Ok" /\ Valid(done)
    /\ done.source.len = U(2)
    /\ Len(done.wrote) = 1
    /\ Slot(done.out, 1) # 0 /\ Slot(done.out, 2) = 0

C10_ArgsWithinBuffers ==
    /\ \A c \in NativeCalls :
         /\ ILeqU(c.capArg, c.alloc)
         /\ ILeqU(c.lenArg, c.source.len)
    /\ \A t \in Threads :
         pc[t] = "in_native" =>
            /\ bufs[t].len = call[t].alloc
            /\ ILeqU(Len(call[t].wrote), bufs[t].len)
            /\ call[t].wrote = <<>> => bufs[t].head = ZeroHead

C10_Witness ==
    \E t \in Threads :
        /\ pc[t] = "in_native"
        /\ call[t].alloc.hi > 0 /\ call[t].capArg = I32_MAX
        /\ Len(call[t].wrote) > 0

====
